---- MODULE Spec2Model ----
(***************************************************************************)
(* The store-management server of mcp_server.py, seen from its             *)
(* recommendation engine: the three collections of the document store,     *)
(* the tool calls that change them (create_purchase, delete_product) and   *)
(* the get_user_recommendations tool call with every step it makes.        *)
(* Spec runs the tool calls from the catalogue on an empty purchase        *)
(* collection; AnalysisSpec runs recommendation requests and price updates *)
(* on stores that already hold a purchase history.                         *)
(* PurchaseSpec runs create_purchase in two server processes on one store, *)
(* one store operation at a time.                                          *)
(*                                                                         *)
(* Prices are integers.  average_price is kept as the pair                 *)
(* (price_sum, price_count) and a recommendation_score as the exact        *)
(* fraction num/den, so no rounding is modelled.                           *)
(***************************************************************************)
EXTENDS Integers, Sequences, FiniteSets, TLC

\* Bounds of the model.
MaxPurchases == 2      \* purchase documents the store may hold
MaxQty == 2            \* largest quantity asked for in one create_purchase
MaxLimit == 3          \* largest limit asked for in one recommendation request
MaxDeleted == 1        \* products that may be deleted
MaxLines == 3          \* purchase lines of a history the analysis is given
MaxLineQty == 3        \* largest quantity of one such line

None == "None"

(***************************************************************************)
(* Identifiers.  "bad" stands for every string that is not a 24-digit hex  *)
(* ObjectId; "u3" is well formed and names no user.                        *)
(***************************************************************************)
MalformedIds == {"bad"}
UserIdInputs == {"u1", "u2", "u3", "bad"}
ProductIdInputs == {"p0", "p1", "p2", "p3", "p4", "bad"}
InitialUsers == {"u1", "u2"}

\* ObjectId.is_valid(id)
ObjectIdIsValidAlways(id) == TRUE

ObjectIdIsValid(id) == id \notin MalformedIds

(***************************************************************************)
(* The products collection at start, in store (insertion) order.  A        *)
(* purchase document keeps the fields the engine reads (user_id,           *)
(* product_id, quantity) and the product_price taken at purchase time;     *)
(* purchase_date is the position in the collection.                        *)
(* "p0" was created with no stock.                                         *)
(***************************************************************************)
Catalogue ==
  << [_id |-> "p0", category |-> "Casual", piece_type |-> "Camiseta",
      color |-> "Preto", price |-> 60, stock_quantity |-> 0],
     [_id |-> "p1", category |-> "Casual", piece_type |-> "Camiseta",
      color |-> "Azul", price |-> 30, stock_quantity |-> 2],
     [_id |-> "p2", category |-> "Casual", piece_type |-> "Calca",
      color |-> "Preto", price |-> 90, stock_quantity |-> 2],
     [_id |-> "p3", category |-> "Casual", piece_type |-> "Vestido",
      color |-> "Azul", price |-> 55, stock_quantity |-> 1],
     [_id |-> "p4", category |-> "Formal", piece_type |-> "Camiseta",
      color |-> "Preto", price |-> 60, stock_quantity |-> 1] >>

VARIABLES
  connected,            \* is_connected(): the collections were opened
  users,                \* users collection: the ids of the user documents
  products,             \* products collection: documents in store order
  purchases,            \* purchases collection: documents in insertion order
  request,              \* the latest tool call: its name and arguments
  outcome,              \* how the service call ended: returned or raised
  response,             \* the kind of text the tool call answered with
  result,               \* the list the recommendation service returned
  user_purchases,       \* the purchase list the request fetched
  preferences,          \* the preference profile the request derived
  recommendations,      \* the raw candidate list, before deduplication
  popular_product_ids,  \* the aggregation result of the fallback path
  strategies,           \* how many candidates each strategy query gave
  sublimits,            \* per strategy, the limit its query was given if made
  reads,                \* the collections queried by the request, in order
  trace,                \* the stages the request went through, in order
  fails_at,             \* the query of the request that the store failed, or 0
  calls                 \* the create_purchase call each server process is in

store == <<users, products, purchases>>
vars == <<connected, users, products, purchases, request, outcome, response,
          result, user_purchases, preferences, recommendations,
          popular_product_ids, strategies, sublimits, reads, trace, fails_at,
          calls>>

(***************************************************************************)
(* Sequence helpers.                                                       *)
(***************************************************************************)
Front(s) == SubSeq(s, 1, Len(s) - 1)

Last(s) == s[Len(s)]

Reverse(s) == [i \in 1..Len(s) |-> s[Len(s) + 1 - i]]

Ids(docs) == {docs[i]._id : i \in 1..Len(docs)}

Abs(x) == IF x < 0 THEN -x ELSE x

Max(a, b) == IF a >= b THEN a ELSE b

Min(a, b) == IF a <= b THEN a ELSE b

(***************************************************************************)
(* Store queries.                                                          *)
(***************************************************************************)
\* cursor.limit(n): 0 means no limit, a negative n is treated as -n.
CursorUnlimited(docs, n) == docs

CursorLimit(docs, n) ==
  IF n = 0 THEN docs ELSE SubSeq(docs, 1, Min(Abs(n), Len(docs)))

\* products_collection.find_one({'_id': id})
ProductExists(id) == \E i \in 1..Len(products) : products[i]._id = id

FindProduct(id) == products[CHOOSE i \in 1..Len(products) : products[i]._id = id]

\* purchases_collection.find({'user_id': user_id}).sort('purchase_date', -1)
get_user_purchases(user_id) ==
  Reverse(SelectSeq(purchases, LAMBDA p : p.user_id = user_id))

(***************************************************************************)
(* _analyze_user_preferences.  A tally is a Python dict: a sequence of     *)
(* (key, total) entries in insertion order.                                *)
(***************************************************************************)
TallyAddEvent(tally, k, quantity) ==
  IF \E i \in 1..Len(tally) : tally[i].key = k
  THEN [i \in 1..Len(tally) |->
          IF tally[i].key = k
          THEN [key |-> k, total |-> tally[i].total + 1]
          ELSE tally[i]]
  ELSE Append(tally, [key |-> k, total |-> 1])

TallyAdd(tally, k, quantity) ==
  IF \E i \in 1..Len(tally) : tally[i].key = k
  THEN [i \in 1..Len(tally) |->
          IF tally[i].key = k
          THEN [key |-> k, total |-> tally[i].total + quantity]
          ELSE tally[i]]
  ELSE Append(tally, [key |-> k, total |-> quantity])

\* the loop of the analysis over the purchases, for one of the three fields
RECURSIVE TallyUnresolvedToo(_, _)
TallyUnresolvedToo(purchs, field) ==
  IF purchs = <<>> THEN <<>>
  ELSE LET purchase == Last(purchs)
           rest == TallyUnresolvedToo(Front(purchs), field)
       IN IF ProductExists(purchase.product_id)
          THEN TallyAdd(rest, FindProduct(purchase.product_id)[field],
                        purchase.quantity)
          ELSE TallyAdd(rest, "", purchase.quantity)

RECURSIVE Tally(_, _)
Tally(purchs, field) ==
  IF purchs = <<>> THEN <<>>
  ELSE LET purchase == Last(purchs)
           rest == Tally(Front(purchs), field)
       IN IF ProductExists(purchase.product_id)
          THEN TallyAdd(rest, FindProduct(purchase.product_id)[field],
                        purchase.quantity)
          ELSE rest

\* max(d, key=d.get) if d else None: the first key of maximal total.
MostFrequentLast(tally) ==
  IF tally = <<>> THEN None
  ELSE tally[CHOOSE i \in 1..Len(tally) :
               /\ \A j \in 1..Len(tally) : tally[j].total <= tally[i].total
               /\ \A j \in (i + 1)..Len(tally) : tally[j].total < tally[i].total].key

MostFrequent(tally) ==
  IF tally = <<>> THEN None
  ELSE tally[CHOOSE i \in 1..Len(tally) :
               /\ \A j \in 1..Len(tally) : tally[j].total <= tally[i].total
               /\ \A j \in 1..(i - 1) : tally[j].total < tally[i].total].key

\* price_range.append(product['price'])
RECURSIVE PriceRangeWeighted(_)
PriceRangeWeighted(purchs) ==
  IF purchs = <<>> THEN <<>>
  ELSE LET purchase == Last(purchs)
           rest == PriceRangeWeighted(Front(purchs))
       IN IF ProductExists(purchase.product_id)
          THEN rest \o [i \in 1..purchase.quantity |->
                          FindProduct(purchase.product_id).price]
          ELSE rest

RECURSIVE PriceRange(_)
PriceRange(purchs) ==
  IF purchs = <<>> THEN <<>>
  ELSE LET purchase == Last(purchs)
           rest == PriceRange(Front(purchs))
       IN IF ProductExists(purchase.product_id)
          THEN Append(rest, FindProduct(purchase.product_id).price)
          ELSE rest

RECURSIVE SumSeq(_)
SumSeq(s) == IF s = <<>> THEN 0 ELSE SumSeq(Front(s)) + Last(s)

analyze_user_preferences(purchs) ==
  LET categories == Tally(purchs, "category")
      piece_types == Tally(purchs, "piece_type")
      colors == Tally(purchs, "color")
      price_range == PriceRange(purchs)
  IN [preferred_category |-> MostFrequent(categories),
      preferred_piece_type |-> MostFrequent(piece_types),
      preferred_color |-> MostFrequent(colors),
      price_sum |-> SumSeq(price_range),
      price_count |-> Len(price_range),
      categories |-> categories,
      piece_types |-> piece_types,
      colors |-> colors]

NoPreferences ==
  [preferred_category |-> None, preferred_piece_type |-> None,
   preferred_color |-> None, price_sum |-> 0, price_count |-> 0,
   categories |-> <<>>, piece_types |-> <<>>, colors |-> <<>>]

\* preferences['average_price'] > 0
AveragePricePositive(prefs) == prefs.price_count > 0 /\ prefs.price_sum > 0

(***************************************************************************)
(* _calculate_recommendation_score, as the exact fraction num/den.         *)
(* With S = price_sum and n = price_count (average_price = S/n):           *)
(*   1 - |price - S/n| / (S/n)  =  (S - |price*n - S|) / S                 *)
(* and 3.0, 2.0, 1.5 are 6, 4, 3 halves, so den = 2*S.                     *)
(***************************************************************************)
calculate_recommendation_score_unclamped(product, prefs) ==
  LET halves == (IF product.category = prefs.preferred_category THEN 6 ELSE 0)
              + (IF product.piece_type = prefs.preferred_piece_type THEN 4 ELSE 0)
              + (IF product.color = prefs.preferred_color THEN 3 ELSE 0)
      S == prefs.price_sum
      price_diff == Abs(product.price * prefs.price_count - S)
  IN IF AveragePricePositive(prefs)
     THEN [num |-> halves * S + 2 * (S - price_diff), den |-> 2 * S]
     ELSE [num |-> halves, den |-> 2]

calculate_recommendation_score(product, prefs) ==
  LET halves == (IF product.category = prefs.preferred_category THEN 6 ELSE 0)
              + (IF product.piece_type = prefs.preferred_piece_type THEN 4 ELSE 0)
              + (IF product.color = prefs.preferred_color THEN 3 ELSE 0)
      S == prefs.price_sum
      price_diff == Abs(product.price * prefs.price_count - S)
  IN IF AveragePricePositive(prefs)
     THEN [num |-> halves * S + 2 * Max(0, S - price_diff), den |-> 2 * S]
     ELSE [num |-> halves, den |-> 2]

\* a < b and a <= b on fractions with positive denominators
ScoreLess(a, b) == a.num * b.den < b.num * a.den

ScoreLeq(a, b) == a.num * b.den <= b.num * a.den

(***************************************************************************)
(* _get_recommendations_by_preferences.                                    *)
(***************************************************************************)
\* '_id': {'$nin': purchased_product_ids}
NinIgnored(product, purchased_product_ids) == TRUE

Nin(product, purchased_product_ids) == product._id \notin purchased_product_ids

\* 'stock_quantity': {'$gt': 0}
InStockOrNot(product) == TRUE

InStock(product) == product.stock_quantity > 0

\* 'price': {'$gte': avg - 0.3*avg, '$lte': avg + 0.3*avg}, avg = S/n
InPriceBandExclusive(product, prefs) ==
  /\ 10 * product.price * prefs.price_count > 7 * prefs.price_sum
  /\ 10 * product.price * prefs.price_count < 13 * prefs.price_sum

InPriceBandHalf(product, prefs) ==
  /\ 10 * product.price * prefs.price_count >= 5 * prefs.price_sum
  /\ 10 * product.price * prefs.price_count <= 15 * prefs.price_sum

InPriceBand(product, prefs) ==
  /\ 10 * product.price * prefs.price_count >= 7 * prefs.price_sum
  /\ 10 * product.price * prefs.price_count <= 13 * prefs.price_sum

CategoryMatches(prefs, purchased_product_ids, n) ==
  CursorLimit(SelectSeq(products, LAMBDA p :
                /\ p.category = prefs.preferred_category
                /\ Nin(p, purchased_product_ids)
                /\ InStock(p)), n)

PieceTypeMatches(prefs, purchased_product_ids, n) ==
  CursorLimit(SelectSeq(products, LAMBDA p :
                /\ p.piece_type = prefs.preferred_piece_type
                /\ Nin(p, purchased_product_ids)
                /\ InStock(p)), n)

PriceBandMatches(prefs, purchased_product_ids, n) ==
  CursorLimit(SelectSeq(products, LAMBDA p :
                /\ InPriceBand(p, prefs)
                /\ Nin(p, purchased_product_ids)
                /\ InStock(p)), n)

\* the loop over seen_ids: the first occurrence of each _id is kept
UniqueKeepAll(docs) == docs

Unique(docs) ==
  LET keep == {i \in 1..Len(docs) : \A j \in 1..(i - 1) : docs[j]._id # docs[i]._id}
      RECURSIVE Pick(_)
      Pick(i) == IF i = 0 THEN <<>>
                 ELSE IF i \in keep THEN Append(Pick(i - 1), docs[i])
                 ELSE Pick(i - 1)
  IN Pick(Len(docs))

WithScore(product, prefs) ==
  [_id |-> product._id, category |-> product.category,
   piece_type |-> product.piece_type, color |-> product.color,
   price |-> product.price, stock_quantity |-> product.stock_quantity,
   recommendation_score |-> calculate_recommendation_score(product, prefs)]

\* list.sort(key=recommendation_score, reverse=True): stable, descending
SortByScoreUnsorted(docs) == docs

RECURSIVE SortByScoreEqualsReversed(_)
SortByScoreEqualsReversed(docs) ==
  IF docs = <<>> THEN <<>>
  ELSE LET x == Last(docs)
           sorted == SortByScoreEqualsReversed(Front(docs))
           k == Cardinality({i \in 1..Len(sorted) :
                  ScoreLess(x.recommendation_score, sorted[i].recommendation_score)})
       IN SubSeq(sorted, 1, k) \o <<x>> \o SubSeq(sorted, k + 1, Len(sorted))

RECURSIVE SortByScore(_)
SortByScore(docs) ==
  IF docs = <<>> THEN <<>>
  ELSE LET x == Last(docs)
           sorted == SortByScore(Front(docs))
           \* x goes after every element whose score is >= its own
           k == Cardinality({i \in 1..Len(sorted) :
                  ScoreLeq(x.recommendation_score, sorted[i].recommendation_score)})
       IN SubSeq(sorted, 1, k) \o <<x>> \o SubSeq(sorted, k + 1, Len(sorted))

\* docs[:limit]
SliceAll(docs, limit) == docs

Slice(docs, limit) ==
  IF limit >= 0 THEN SubSeq(docs, 1, Min(limit, Len(docs)))
  ELSE SubSeq(docs, 1, Max(0, Len(docs) + limit))

\* no strategy query was made
NotRun == << <<>>, <<>>, <<>> >>

get_recommendations_by_preferences(prefs, purchs, limit) ==
  LET purchased_product_ids == {purchs[i].product_id : i \in 1..Len(purchs)}
      run1 == prefs.preferred_category # None
      s1 == IF run1
            THEN CategoryMatches(prefs, purchased_product_ids, limit \div 3)
            ELSE <<>>
      run2 == prefs.preferred_piece_type # None /\ Len(s1) < limit
      s2 == IF run2
            THEN PieceTypeMatches(prefs, purchased_product_ids,
                                  (limit - Len(s1)) \div 2)
            ELSE <<>>
      run3 == AveragePricePositive(prefs) /\ Len(s1) + Len(s2) < limit
      s3 == IF run3
            THEN PriceBandMatches(prefs, purchased_product_ids,
                                  limit - (Len(s1) + Len(s2)))
            ELSE <<>>
      raw == s1 \o s2 \o s3
      unique == Unique(raw)
      scored == [i \in 1..Len(unique) |-> WithScore(unique[i], prefs)]
  IN [recommendations |-> raw,
      strategies |-> <<Len(s1), Len(s2), Len(s3)>>,
      sublimits |-> << IF run1 THEN <<limit \div 3>> ELSE <<>>,
                       IF run2 THEN <<(limit - Len(s1)) \div 2>> ELSE <<>>,
                       IF run3 THEN <<limit - (Len(s1) + Len(s2))>> ELSE <<>> >>,
      reads |-> (IF run1 THEN <<"products">> ELSE <<>>)
                \o (IF run2 THEN <<"products">> ELSE <<>>)
                \o (IF run3 THEN <<"products">> ELSE <<>>),
      result |-> Slice(SortByScore(scored), limit)]

(***************************************************************************)
(* _get_popular_products.                                                  *)
(***************************************************************************)
RECURSIVE TotalQuantity(_, _)
TotalQuantity(purchs, product_id) ==
  IF purchs = <<>> THEN 0
  ELSE TotalQuantity(Front(purchs), product_id)
       + (IF Last(purchs).product_id = product_id THEN Last(purchs).quantity ELSE 0)

\* {'$group': {'_id': '$product_id', 'total_quantity': {'$sum': '$quantity'}}}
GroupByProduct(purchs) ==
  {[_id |-> id, total_quantity |-> TotalQuantity(purchs, id)] :
     id \in {purchs[i].product_id : i \in 1..Len(purchs)}}

\* {'$sort': {'total_quantity': -1}}: the store fixes no order among equal
\* totals, so every descending arrangement of the groups is a possible output.
SortedAscending(groups) ==
  {s \in [1..Cardinality(groups) -> groups] :
     /\ \A i, j \in 1..Cardinality(groups) : i # j => s[i] # s[j]
     /\ \A i, j \in 1..Cardinality(groups) :
          i < j => s[i].total_quantity <= s[j].total_quantity}

SortedDescending(groups) ==
  {s \in [1..Cardinality(groups) -> groups] :
     /\ \A i, j \in 1..Cardinality(groups) : i # j => s[i] # s[j]
     /\ \A i, j \in 1..Cardinality(groups) :
          i < j => s[i].total_quantity >= s[j].total_quantity}

\* the pipeline with {'$limit': limit}; a limit <= 0 is refused by the store
AggregatePopular(purchs, limit) ==
  {SubSeq(s, 1, Min(limit, Len(s))) : s \in SortedDescending(GroupByProduct(purchs))}

\* purchases_collection.aggregate(pipeline) as get_recommendations_for_user
\* may come to ask it: every output the store may give for this limit
PopularOutputs(limit) ==
  IF limit <= 0 THEN {<<>>} ELSE AggregatePopular(purchases, limit)

\* products_collection.find({'_id': {'$in': product_ids}}): store order
FindIn(product_ids) == SelectSeq(products, LAMBDA p : p._id \in product_ids)

\* products_collection.find({'stock_quantity': {'$gt': 0}}).limit(limit)
FindAnyStock(limit) == CursorLimit(products, limit)

FindInStock(limit) == CursorLimit(SelectSeq(products, InStock), limit)

get_popular_products(limit, popular) ==
  IF limit <= 0
  THEN [raised |-> "OperationFailure", result |-> <<>>,
        reads |-> <<"purchases">>, stages |-> <<"popular">>]
  ELSE IF popular = <<>>
  THEN [raised |-> None, result |-> FindInStock(limit),
        reads |-> <<"purchases", "products">>, stages |-> <<"popular", "cold">>]
  ELSE [raised |-> None, result |-> FindIn(Ids(popular)),
        reads |-> <<"purchases", "products">>, stages |-> <<"popular">>]

(***************************************************************************)
(* RecommendationService.get_recommendations_for_user.  popular is the     *)
(* output the store gives the aggregation pipeline, if it is asked.        *)
(***************************************************************************)
HasNoHistoryUpToOne(purchs) == Len(purchs) <= 1

HasNoHistory(purchs) == purchs = <<>>

get_recommendations_for_user(user_id, limit, popular) ==
  IF ~ObjectIdIsValid(user_id)
  THEN [raised |-> "ValueError", result |-> <<>>, user_purchases |-> <<>>,
        preferences |-> NoPreferences, recommendations |-> <<>>,
        popular_product_ids |-> <<>>, strategies |-> <<0, 0, 0>>,
        sublimits |-> NotRun, reads |-> <<>>, trace |-> <<>>]
  ELSE
    LET purchs == get_user_purchases(user_id)
    IN IF HasNoHistory(purchs)
       THEN LET pop == get_popular_products(limit, popular)
            IN [raised |-> pop.raised, result |-> pop.result,
                user_purchases |-> purchs, preferences |-> NoPreferences,
                recommendations |-> <<>>,
                popular_product_ids |-> IF limit <= 0 THEN <<>> ELSE popular,
                strategies |-> <<0, 0, 0>>, sublimits |-> NotRun,
                reads |-> <<"purchases">> \o pop.reads,
                trace |-> <<"fetch">> \o pop.stages]
       ELSE LET prefs == analyze_user_preferences(purchs)
                recs == get_recommendations_by_preferences(prefs, purchs, limit)
            IN [raised |-> None, result |-> recs.result,
                user_purchases |-> purchs, preferences |-> prefs,
                recommendations |-> recs.recommendations,
                popular_product_ids |-> <<>>,
                strategies |-> recs.strategies,
                sublimits |-> recs.sublimits,
                reads |-> <<"purchases">>
                          \o [i \in 1..Len(purchs) |-> "products"]
                          \o recs.reads,
                trace |-> <<"fetch", "analyze", "generate", "rank">>]

(***************************************************************************)
(* A store query that fails raises a PyMongoError out of the service: no   *)
(* query of the service is inside a try.  call is the request as it runs   *)
(* when every query answers, fault the position of the query that fails:   *)
(* the queries before it were made, the steps after it were not.           *)
(***************************************************************************)
QueryFailureSwallowed(call, fault) == call

QueryFailure(call, fault) ==
  [raised |-> "PyMongoError", result |-> <<>>,
   user_purchases |-> IF fault > 1 THEN call.user_purchases ELSE <<>>,
   preferences |-> IF fault > 1 + Len(call.user_purchases)
                   THEN call.preferences ELSE NoPreferences,
   recommendations |-> <<>>,
   popular_product_ids |-> IF fault > 2 THEN call.popular_product_ids ELSE <<>>,
   strategies |-> <<0, 0, 0>>,
   sublimits |-> NotRun,
   reads |-> SubSeq(call.reads, 1, fault),
   trace |-> IF fault = 1 THEN <<"fetch">>
             ELSE IF call.user_purchases = <<>>
                  THEN IF fault = 2 THEN <<"fetch", "popular">> ELSE call.trace
             ELSE IF fault <= 1 + Len(call.user_purchases)
                  THEN <<"fetch", "analyze">>
             ELSE <<"fetch", "analyze", "generate">>]

(***************************************************************************)
(* The tool calls.                                                         *)
(***************************************************************************)
\* the server processes that were started on the one store
Servers == {"s1", "s2"}

NoCall == [pc |-> "idle", user_id |-> None, product_id |-> None,
           quantity |-> 0, product_price |-> 0]

NoCalls == [s \in Servers |-> NoCall]

Init ==
  /\ connected \in BOOLEAN
  /\ users = InitialUsers
  /\ products = Catalogue
  /\ purchases = <<>>
  /\ request = [tool |-> "none"]
  /\ outcome = None
  /\ response = "none"
  /\ result = <<>>
  /\ user_purchases = <<>>
  /\ preferences = NoPreferences
  /\ recommendations = <<>>
  /\ popular_product_ids = <<>>
  /\ strategies = <<0, 0, 0>>
  /\ sublimits = NotRun
  /\ reads = <<>>
  /\ trace = <<>>
  /\ fails_at = 0
  /\ calls = NoCalls

NoLocals ==
  /\ result' = <<>>
  /\ user_purchases' = <<>>
  /\ preferences' = NoPreferences
  /\ recommendations' = <<>>
  /\ popular_product_ids' = <<>>
  /\ strategies' = <<0, 0, 0>>
  /\ sublimits' = NotRun
  /\ reads' = <<>>
  /\ trace' = <<>>
  /\ fails_at' = 0

(***************************************************************************)
(* The server answers one tool call at a time: a handler runs when no call *)
(* is being answered (Idle), and AwaitNextCall sends the answer, after     *)
(* which nothing of the call is kept.                                      *)
(***************************************************************************)
Idle == request.tool = "none"

\* handle_call_tool when the collections could not be opened
Unavailable ==
  /\ Idle
  /\ ~connected
  /\ \/ \E user_id \in UserIdInputs, limit \in (-1)..MaxLimit :
          request' = [tool |-> "get_user_recommendations",
                      user_id |-> user_id, limit |-> limit]
     \/ request' = [tool |-> "create_purchase"]
     \/ request' = [tool |-> "delete_product"]
  /\ outcome' = None
  /\ response' = "unavailable"
  /\ NoLocals
  /\ UNCHANGED calls
  /\ UNCHANGED <<connected, store>>

\* _handle_get_user_recommendations under handle_call_tool; the store may
\* fail any one query the request makes
GetUserRecommendationsReserving(user_id, limit) ==
  /\ Idle
  /\ connected
  /\ request' = [tool |-> "get_user_recommendations",
                 user_id |-> user_id, limit |-> limit]
  /\ outcome' = None
  /\ response' = "recommendations"
  /\ products' = [i \in 1..Len(products) |->
                   [products[i] EXCEPT !.stock_quantity = Max(0, @ - 1)]]
  /\ NoLocals
  /\ UNCHANGED calls
  /\ UNCHANGED <<connected, users, purchases>>

GetUserRecommendations(user_id, limit) ==
  /\ Idle
  /\ connected
  /\ \E popular \in PopularOutputs(limit) :
     \E answered \in {get_recommendations_for_user(user_id, limit, popular)} :
     \E fault \in 0..Len(answered.reads) :
     \E call \in {IF fault = 0 THEN answered ELSE QueryFailure(answered, fault)} :
       /\ fails_at' = fault
       /\ strategies' = call.strategies
       /\ sublimits' = call.sublimits
       /\ request' = [tool |-> "get_user_recommendations",
                      user_id |-> user_id, limit |-> limit]
       /\ outcome' = call.raised
       /\ response' = IF call.raised = "ValueError" THEN "error"
                      ELSE IF call.raised # None THEN "crash"
                      ELSE IF call.result = <<>> THEN "no_recommendations"
                      ELSE "recommendations"
       /\ result' = call.result
       /\ user_purchases' = call.user_purchases
       /\ preferences' = call.preferences
       /\ recommendations' = call.recommendations
       /\ popular_product_ids' = call.popular_product_ids
       /\ reads' = call.reads
       /\ trace' = call.trace
       /\ UNCHANGED <<connected, store, calls>>

\* PurchaseService.create_purchase under _handle_create_purchase
CreatePurchaseError(user_id, product_id, quantity) ==
  IF ~ObjectIdIsValid(user_id) THEN "ID do usuario invalido"
  ELSE IF ~ObjectIdIsValid(product_id) THEN "ID do produto invalido"
  ELSE IF quantity <= 0 THEN "Quantidade deve ser maior que zero"
  ELSE IF user_id \notin users THEN "Usuario nao encontrado"
  ELSE IF ~ProductExists(product_id) THEN "Produto nao encontrado"
  ELSE IF FindProduct(product_id).stock_quantity < quantity THEN "Estoque insuficiente"
  ELSE None

CreatePurchase(user_id, product_id, quantity) ==
  LET error == CreatePurchaseError(user_id, product_id, quantity)
  IN /\ Idle
     /\ connected
     /\ request' = [tool |-> "create_purchase"]
     /\ IF error # None
        THEN /\ outcome' = "ValueError"
             /\ response' = "error"
             /\ UNCHANGED store
        ELSE /\ Len(purchases) < MaxPurchases
             /\ outcome' = None
             /\ response' = "purchase"
             /\ purchases' = Append(purchases,
                  [user_id |-> user_id, product_id |-> product_id,
                   product_price |-> FindProduct(product_id).price,
                   quantity |-> quantity])
             /\ products' = [i \in 1..Len(products) |->
                  IF products[i]._id = product_id
                  THEN [products[i] EXCEPT !.stock_quantity = @ - quantity]
                  ELSE products[i]]
             /\ UNCHANGED users
     /\ NoLocals
     /\ UNCHANGED calls
     /\ UNCHANGED connected

\* ProductService.delete_product under _handle_delete_product
DeleteProduct(product_id) ==
  /\ Idle
  /\ connected
  /\ request' = [tool |-> "delete_product"]
  /\ IF ObjectIdIsValid(product_id) /\ ProductExists(product_id)
     THEN /\ Len(Catalogue) - Len(products) < MaxDeleted
          /\ products' = SelectSeq(products, LAMBDA p : p._id # product_id)
          /\ outcome' = None
          /\ response' = "deleted"
     ELSE /\ outcome' = IF ObjectIdIsValid(product_id) THEN "ValueError" ELSE None
          /\ response' = "error"
          /\ UNCHANGED products
  /\ UNCHANGED <<connected, users, purchases>>
  /\ NoLocals
  /\ UNCHANGED calls

\* ProductService.update_product under _handle_update_product, for a call
\* that gives the product's name and a new price
UpdateProduct(product_id, price) ==
  /\ Idle
  /\ connected
  /\ request' = [tool |-> "update_product"]
  /\ IF ObjectIdIsValid(product_id) /\ ProductExists(product_id) /\ price > 0
     THEN /\ products' = [i \in 1..Len(products) |->
               IF products[i]._id = product_id
               THEN [products[i] EXCEPT !.price = price]
               ELSE products[i]]
          /\ outcome' = None
          /\ response' = "updated"
     ELSE /\ outcome' = IF ObjectIdIsValid(product_id) THEN "ValueError" ELSE None
          /\ response' = "error"
          /\ UNCHANGED products
  /\ UNCHANGED <<connected, users, purchases>>
  /\ NoLocals
  /\ UNCHANGED calls

\* the answer is sent and the server waits for the next call
AwaitNextCall ==
  /\ ~Idle
  /\ request' = [tool |-> "none"]
  /\ outcome' = None
  /\ response' = "none"
  /\ NoLocals
  /\ UNCHANGED calls
  /\ UNCHANGED <<connected, store>>

Next ==
  \/ \E user_id \in UserIdInputs, limit \in (-1)..MaxLimit :
       GetUserRecommendations(user_id, limit)
  \/ \E user_id \in UserIdInputs, product_id \in ProductIdInputs,
        quantity \in 0..MaxQty :
       CreatePurchase(user_id, product_id, quantity)
  \/ \E product_id \in ProductIdInputs : DeleteProduct(product_id)
  \/ Unavailable
  \/ AwaitNextCall

Spec == Init /\ [][Next]_vars

(***************************************************************************)
(* The analysis and the candidate queries on given histories: the store   *)
(* holds a catalogue priced around 100 and any history of up to MaxLines   *)
(* purchase lines of user "u1"; products are repriced and "u1" asks for    *)
(* recommendations.  The lines are of three products of the catalogue and  *)
(* of "q0", a product deleted since.  (Stock is as update_product left     *)
(* it.)                                                                    *)
(***************************************************************************)
PricedCatalogue ==
  << [_id |-> "q1", category |-> "Casual", piece_type |-> "Camiseta",
      color |-> "Azul", price |-> 100, stock_quantity |-> 1],
     [_id |-> "q2", category |-> "Formal", piece_type |-> "Calca",
      color |-> "Preto", price |-> 130, stock_quantity |-> 1],
     [_id |-> "q3", category |-> "Formal", piece_type |-> "Vestido",
      color |-> "Preto", price |-> 131, stock_quantity |-> 1],
     [_id |-> "q4", category |-> "Esportivo", piece_type |-> "Saia",
      color |-> "Branco", price |-> 70, stock_quantity |-> 1],
     [_id |-> "q5", category |-> "Esportivo", piece_type |-> "Blusa",
      color |-> "Branco", price |-> 69, stock_quantity |-> 1] >>

DeletedProduct == [_id |-> "q0", price |-> 50]

BoughtProducts ==
  {DeletedProduct}
    \cup {[_id |-> PricedCatalogue[i]._id, price |-> PricedCatalogue[i].price] :
            i \in {1, 2, 4}}

PurchaseLines ==
  {[user_id |-> "u1", product_id |-> p._id, product_price |-> p.price,
    quantity |-> quantity] : p \in BoughtProducts, quantity \in {1, MaxLineQty}}

\* the update_product calls made: two price cuts and a price of zero
Repricings == {<<"q2", 90>>, <<"q4", 30>>, <<"q4", 0>>}

Histories == UNION {[1..n -> PurchaseLines] : n \in 0..MaxLines}

AnalysisInit ==
  /\ connected = TRUE
  /\ users = InitialUsers
  /\ products = PricedCatalogue
  /\ purchases \in Histories
  /\ request = [tool |-> "none"]
  /\ outcome = None
  /\ response = "none"
  /\ result = <<>>
  /\ user_purchases = <<>>
  /\ preferences = NoPreferences
  /\ recommendations = <<>>
  /\ popular_product_ids = <<>>
  /\ strategies = <<0, 0, 0>>
  /\ sublimits = NotRun
  /\ reads = <<>>
  /\ trace = <<>>
  /\ fails_at = 0
  /\ calls = NoCalls

AnalysisNext ==
  \/ \E limit \in 1..MaxLimit : GetUserRecommendations("u1", limit)
  \/ \E update \in Repricings : UpdateProduct(update[1], update[2])
  \/ AwaitNextCall

AnalysisSpec == AnalysisInit /\ [][AnalysisNext]_vars

(***************************************************************************)
(* create_purchase as several server processes run it on the one store.    *)
(* A call is four store operations with nothing that joins them: find_one  *)
(* on users, find_one on products, insert_one on purchases and update_one  *)
(* on products.  Between two operations of one process the other process   *)
(* may make any of its own.                                                *)
(***************************************************************************)
PurchaseUserInputs == {"u1", "u3"}

PurchaseProductInputs == {"p1", "p3", "p9"}

\* everything of the server that a purchase leaves alone
answer == <<request, outcome, response, result, user_purchases, preferences,
            recommendations, popular_product_ids, strategies, sublimits,
            reads, trace, fails_at>>

PurchaseInit ==
  /\ Init
  /\ connected

\* the calls that were begun and have not been rejected
Accepted == {s \in Servers : calls[s].pc \notin {"idle", "rejected"}}

\* the argument validation of create_purchase, before any store operation
BeginPurchase(s, user_id, product_id, quantity) ==
  /\ calls[s].pc = "idle"
  /\ Len(purchases) + Cardinality(Accepted) < MaxPurchases
  /\ calls' = [calls EXCEPT ![s] =
       [pc |-> IF /\ ObjectIdIsValid(user_id)
                  /\ ObjectIdIsValid(product_id)
                  /\ quantity > 0
               THEN "find_user" ELSE "rejected",
        user_id |-> user_id, product_id |-> product_id,
        quantity |-> quantity, product_price |-> 0]]
  /\ UNCHANGED <<connected, store, answer>>

\* users_collection.find_one
FindUser(s) ==
  /\ calls[s].pc = "find_user"
  /\ calls' = [calls EXCEPT ![s].pc =
       IF calls[s].user_id \in users THEN "find_product" ELSE "rejected"]
  /\ UNCHANGED <<connected, store, answer>>

\* products_collection.find_one and the stock test on the document read
FindProductAndCheckStock(s) ==
  /\ calls[s].pc = "find_product"
  /\ IF /\ ProductExists(calls[s].product_id)
        /\ FindProduct(calls[s].product_id).stock_quantity >= calls[s].quantity
     THEN calls' = [calls EXCEPT
            ![s].pc = "insert",
            ![s].product_price = FindProduct(calls[s].product_id).price]
     ELSE calls' = [calls EXCEPT ![s].pc = "rejected"]
  /\ UNCHANGED <<connected, store, answer>>

\* purchases_collection.insert_one
InsertPurchase(s) ==
  /\ calls[s].pc = "insert"
  /\ purchases' = Append(purchases,
       [user_id |-> calls[s].user_id, product_id |-> calls[s].product_id,
        product_price |-> calls[s].product_price,
        quantity |-> calls[s].quantity])
  /\ calls' = [calls EXCEPT ![s].pc = "decrement"]
  /\ UNCHANGED <<connected, users, products, answer>>

\* products_collection.update_one with $inc of -quantity
DecrementStock(s) ==
  /\ calls[s].pc = "decrement"
  /\ products' = [i \in 1..Len(products) |->
       IF products[i]._id = calls[s].product_id
       THEN [products[i] EXCEPT !.stock_quantity = @ - calls[s].quantity]
       ELSE products[i]]
  /\ calls' = [calls EXCEPT ![s].pc = "done"]
  /\ UNCHANGED <<connected, users, purchases, answer>>

\* the handler answers: the purchase, or the error text of the ValueError
AnswerPurchase(s) ==
  /\ calls[s].pc \in {"done", "rejected"}
  /\ calls' = [calls EXCEPT ![s] = NoCall]
  /\ UNCHANGED <<connected, store, answer>>

PurchaseNext ==
  \E s \in Servers :
    \/ \E user_id \in PurchaseUserInputs, product_id \in PurchaseProductInputs,
          quantity \in 0..MaxQty :
         BeginPurchase(s, user_id, product_id, quantity)
    \/ FindUser(s)
    \/ FindProductAndCheckStock(s)
    \/ InsertPurchase(s)
    \/ DecrementStock(s)
    \/ AnswerPurchase(s)

PurchaseSpec == PurchaseInit /\ [][PurchaseNext]_vars

(***************************************************************************)
(* Properties of a recommendation request.  While a call is being answered *)
(* the store is the store the call read.                                   *)
(***************************************************************************)
Requested == request.tool = "get_user_recommendations"

\* a recommendation request on an open store that answered every query
IsRecommendation == Requested /\ connected /\ fails_at = 0

\* the service returned a list (it did not raise)
Returned == IsRecommendation /\ outcome = None

\* the purchase documents of the requesting user, as the store holds them
History == SelectSeq(purchases, LAMBDA p : p.user_id = request.user_id)

Range(s) == {s[i] : i \in 1..Len(s)}

PersonalizedTrace == <<"fetch", "analyze", "generate", "rank">>

\* the request took the popularity fallback and the aggregation was not empty
OnPopularPath ==
  /\ Returned
  /\ request.limit > 0
  /\ request.user_id \notin MalformedIds
  /\ History = <<>>
  /\ purchases # <<>>

PurchasedIds == {purchases[i].product_id : i \in 1..Len(purchases)}

\* C1: for a user with purchase history and a positive limit, no returned
\* product has the id of a product of a purchase of that user.
C1_NoSelfRecommendation ==
  (Returned /\ request.limit > 0 /\ History # <<>>)
    => \A i \in 1..Len(result) : \A j \in 1..Len(History) :
         result[i]._id # History[j].product_id

\* a list was returned to a user one of whose purchased products is still in
\* stock, so only the exclusion keeps it out
C1_Witness ==
  /\ Returned /\ request.limit > 0 /\ result # <<>>
  /\ \E j \in 1..Len(History) :
       /\ ProductExists(History[j].product_id)
       /\ InStock(FindProduct(History[j].product_id))
       /\ FindProduct(History[j].product_id).category = preferences.preferred_category

\* C2: for every positive limit the returned list has at most limit items,
\* on the personalized, the popularity and the cold-store path.
C2_LimitRespected ==
  (Returned /\ request.limit > 0) => Len(result) <= request.limit

\* the personalized path found more distinct candidates than limit and
\* returned exactly limit of them
C2_Witness ==
  /\ Returned /\ request.limit > 0
  /\ trace = PersonalizedTrace
  /\ Cardinality(Ids(recommendations)) > request.limit
  /\ Len(result) = request.limit

\* C3: for a user with purchase history every returned item has a score >= 0
\* and each item's score is >= the score of the item after it.
C3_ScoresSortedNonNegative ==
  (Returned /\ History # <<>>)
    => /\ \A i \in 1..Len(result) :
            /\ result[i].recommendation_score.num >= 0
            /\ result[i].recommendation_score.den > 0
       /\ \A i \in 1..(Len(result) - 1) :
            ScoreLeq(result[i + 1].recommendation_score,
                     result[i].recommendation_score)

\* two items of different score were returned, and the candidate found first
\* is not the one returned first
C3_Witness ==
  /\ Returned /\ History # <<>> /\ Len(result) >= 2
  /\ ScoreLess(result[2].recommendation_score, result[1].recommendation_score)
  /\ recommendations[1]._id # result[1]._id

\* C4: no product id appears twice in one returned list.
C4_NoDuplicateIds ==
  Returned => \A i, j \in 1..Len(result) : i # j => result[i]._id # result[j]._id

\* a product came out of more than one strategy and a list was returned
C4_Witness ==
  /\ Returned /\ request.limit > 0 /\ result # <<>>
  /\ \E i, j \in 1..Len(recommendations) :
       i # j /\ recommendations[i]._id = recommendations[j]._id

\* C5 (as claimed): a well-formed user id that names no user is answered with
\* a not-found error and no list.
C5_MissingUserIsNotFound ==
  (IsRecommendation /\ request.limit > 0
     /\ request.user_id \notin MalformedIds /\ request.user_id \notin users)
    => /\ outcome = "ValueError"
       /\ response = "error"
       /\ result = <<>>

\* C6 (as claimed): a non-positive limit is answered with an invalid-argument
\* error, before any store query and without a list.
C6_NonPositiveLimitIsInvalidArgument ==
  (IsRecommendation /\ request.user_id \in users /\ request.limit <= 0)
    => /\ outcome = "ValueError"
       /\ response = "error"
       /\ reads = <<>>

\* C7: a malformed user id raises the invalid-id error before any collection
\* is read, and the answer is the error text, not the no-recommendation text.
C7_MalformedIdFailsBeforeReads ==
  (IsRecommendation /\ request.user_id \in MalformedIds)
    => /\ outcome = "ValueError"
       /\ reads = <<>>
       /\ trace = <<>>
       /\ response = "error"
       /\ result = <<>>

\* a malformed id was sent while the store held purchases and products
C7_Witness ==
  /\ IsRecommendation /\ request.user_id \in MalformedIds
  /\ request.limit > 0
  /\ purchases # <<>> /\ products # <<>>

\* C8: the fallback is taken exactly when the user's purchase list is empty;
\* a user with a purchase goes through analyze, generate, rank; the analyzer
\* never runs on an empty list.
C8_FallbackIffNoHistory ==
  (IsRecommendation /\ request.user_id \notin MalformedIds)
    => /\ ("popular" \in Range(trace)) <=> (History = <<>>)
       /\ History # <<>> => trace = PersonalizedTrace
       /\ "analyze" \in Range(trace)
            => (user_purchases # <<>> /\ "popular" \notin Range(trace))
       /\ user_purchases = Reverse(History)

\* a user with exactly one purchase went through analyze, generate, rank
\* while other users' purchases were there for the fallback
C8_Witness ==
  /\ IsRecommendation /\ request.limit > 0
  /\ Len(History) = 1 /\ Len(purchases) > 1
  /\ trace = PersonalizedTrace

\* C9: on the popularity path the returned products are exactly those that
\* resolve from a group of limit product ids of greatest summed quantity.
C9_PopularIsTopLimit ==
  OnPopularPath
    => \E top \in SUBSET PurchasedIds :
         /\ Cardinality(top) = Min(request.limit, Cardinality(PurchasedIds))
         /\ \A a \in top : \A b \in PurchasedIds \ top :
              TotalQuantity(purchases, a) >= TotalQuantity(purchases, b)
         /\ Ids(result) = {id \in top : ProductExists(id)}
         /\ Len(result) = Cardinality(Ids(result))

\* more product ids were purchased than limit, with different totals, and
\* the product of greatest total was returned
C9_Witness ==
  /\ OnPopularPath
  /\ Cardinality(PurchasedIds) > request.limit
  /\ \E a, b \in PurchasedIds :
       TotalQuantity(purchases, a) > TotalQuantity(purchases, b)
  /\ result # <<>>

\* C10 (as claimed): on the popularity path a returned product of larger
\* summed quantity comes before one of smaller summed quantity.
C10_PopularOrderedByQuantity ==
  OnPopularPath
    => \A i, j \in 1..Len(result) :
         TotalQuantity(purchases, result[i]._id)
           > TotalQuantity(purchases, result[j]._id) => i < j

\* the products of the collection that are in stock
InStockIds == {products[i]._id : i \in {j \in 1..Len(products) : InStock(products[j])}}

\* C11: on a store with no purchase at all, a request with a positive limit
\* returns without error min(limit, number of in-stock products) distinct
\* products of the collection, each with stock_quantity > 0; so the list is
\* not empty when a product is in stock.
C11_ColdPath ==
  (IsRecommendation /\ request.user_id \notin MalformedIds
     /\ request.limit > 0 /\ purchases = <<>>)
    => /\ outcome = None
       /\ response = IF InStockIds = {} THEN "no_recommendations"
                     ELSE "recommendations"
       /\ Len(result) = Min(request.limit, Cardinality(InStockIds))
       /\ Cardinality(Ids(result)) = Len(result)
       /\ \A i \in 1..Len(result) :
            /\ result[i].stock_quantity > 0
            /\ result[i]._id \in InStockIds
       /\ InStockIds # {} => result # <<>>

\* the cold store held a product without stock before the products returned,
\* and more products in stock than the limit
C11_Witness ==
  /\ IsRecommendation /\ request.user_id \notin MalformedIds
  /\ request.limit > 0 /\ purchases = <<>>
  /\ Cardinality(InStockIds) > request.limit
  /\ ~InStock(products[1])
  /\ result # <<>>

\* the request ran the analysis and the three steps after it
Personalized == Returned /\ trace = PersonalizedTrace

\* the candidates the price-band query gave
BandCandidates ==
  SubSeq(recommendations, strategies[1] + strategies[2] + 1, Len(recommendations))

\* the price-band query was made and gave fewer documents than its limit
BandQueryComplete ==
  /\ Personalized
  /\ AveragePricePositive(preferences)
  /\ strategies[1] + strategies[2] < request.limit
  /\ strategies[3] < request.limit - (strategies[1] + strategies[2])

\* S - 0.3*S <= price*n <= S + 0.3*S, in tenths (average_price = S/n)
WithinThirtyPercent(price, S, n) ==
  /\ 10 * S - 3 * S <= 10 * price * n
  /\ 10 * price * n <= 10 * S + 3 * S

\* C12: a product (in stock, not purchased by the user) is a candidate of the
\* price-band query exactly when average_price - 0.3*average_price <= price
\* <= average_price + 0.3*average_price, both bounds included; with
\* average_price 100 the products priced 130 and 70 are candidates and the
\* products priced 131 and 69 are not.
C12_PriceBandInclusive ==
  /\ Personalized
       => \A i \in 1..Len(BandCandidates) :
            WithinThirtyPercent(BandCandidates[i].price,
                                preferences.price_sum, preferences.price_count)
  /\ BandQueryComplete
       => \A i \in 1..Len(products) :
            (/\ WithinThirtyPercent(products[i].price, preferences.price_sum,
                                    preferences.price_count)
             /\ products[i].stock_quantity > 0
             /\ \A j \in 1..Len(user_purchases) :
                  user_purchases[j].product_id # products[i]._id)
              => products[i]._id \in Ids(BandCandidates)
  /\ (BandQueryComplete /\ preferences.price_sum = 100 * preferences.price_count)
       => \A i \in 1..Len(products) :
            (/\ products[i].stock_quantity > 0
             /\ \A j \in 1..Len(user_purchases) :
                  user_purchases[j].product_id # products[i]._id)
              => /\ products[i].price \in {70, 130}
                      => products[i]._id \in Ids(BandCandidates)
                 /\ products[i].price \in {69, 131}
                      => products[i]._id \notin Ids(BandCandidates)

\* average_price was 100 and the catalogue held products priced 69, 70, 130
\* and 131 that the user had not bought: the query gave those at 70 and 130
C12_Witness ==
  /\ BandQueryComplete
  /\ preferences.price_sum = 100 * preferences.price_count
  /\ \A j \in 1..Len(user_purchases) : user_purchases[j].product_id = "q1"
  /\ {69, 70, 130, 131} \subseteq {products[i].price : i \in 1..Len(products)}
  /\ {BandCandidates[i].price : i \in 1..Len(BandCandidates)} = {70, 130}

\* twice the sum of the three match terms 3.0, 2.0 and 1.5 of an item
TwiceMatchTerms(item) ==
  (IF item.category = preferences.preferred_category THEN 6 ELSE 0)
  + (IF item.piece_type = preferences.preferred_piece_type THEN 4 ELSE 0)
  + (IF item.color = preferences.preferred_color THEN 3 ELSE 0)

\* S times price_score, for average_price = S/n > 0:
\* S * max(0, 1 - |price - S/n| / (S/n)) = max(0, S - |price*n - S|)
PriceScoreTimesSum(item) ==
  LET S == preferences.price_sum
      n == preferences.price_count
      distance == IF item.price * n >= S THEN item.price * n - S
                  ELSE S - item.price * n
  IN IF S - distance > 0 THEN S - distance ELSE 0

\* C13: the score of a returned item is 3.0 for a category match plus 2.0
\* for a piece_type match plus 1.5 for a color match plus price_score, where
\* price_score = max(0, 1 - |price - average_price| / average_price) when
\* average_price > 0 and 0 otherwise; an item matching only the category,
\* priced 55 against average_price 60, scores 3 + 55/60 = 47/12.
C13_ScoreFormula ==
  Personalized
    => \A i \in 1..Len(result) :
         LET item == result[i]
             score == item.recommendation_score
             S == preferences.price_sum
         IN /\ score.den > 0
            /\ IF preferences.price_count > 0 /\ S > 0
               THEN score.num * (2 * S)
                      = score.den * (TwiceMatchTerms(item) * S
                                     + 2 * PriceScoreTimesSum(item))
               ELSE score.num * 2 = score.den * TwiceMatchTerms(item)
            /\ (/\ S = 60 * preferences.price_count /\ S > 0
                /\ item.price = 55 /\ TwiceMatchTerms(item) = 6)
                 => score.num * 12 = 47 * score.den

\* an item priced 55 that matches only the category was returned to a user
\* whose two purchase lines average 60
C13_Witness ==
  /\ Personalized
  /\ preferences.price_sum = 60 * preferences.price_count
  /\ preferences.price_count = 2
  /\ \E i \in 1..Len(result) :
       /\ result[i].price = 55
       /\ TwiceMatchTerms(result[i]) = 6
       /\ result[i].recommendation_score.num * 12
            = 47 * result[i].recommendation_score.den

\* the purchase line resolves to a product of the collection
Resolves(purchase) == ProductExists(purchase.product_id)

\* the summed quantity of the lines whose product has this value of the field
RECURSIVE QuantityBought(_, _, _)
QuantityBought(purchs, field, value) ==
  IF purchs = <<>> THEN 0
  ELSE QuantityBought(Front(purchs), field, value)
       + (IF Resolves(Last(purchs))
             /\ FindProduct(Last(purchs).product_id)[field] = value
          THEN Last(purchs).quantity ELSE 0)

PreferenceFields ==
  {<<"category", "preferred_category">>, <<"piece_type", "preferred_piece_type">>,
   <<"color", "preferred_color">>}

\* C14: each of preferred_category, preferred_piece_type and preferred_color
\* is a value whose summed purchase quantity over the user's purchases is the
\* greatest (None when no purchase resolves); a single line of quantity 3 or
\* more outweighs two lines of quantity 1.
C14_TalliesWeightedByQuantity ==
  Personalized
    => /\ \A f \in PreferenceFields :
            LET preferred == preferences[f[2]]
            IN IF \E i \in 1..Len(user_purchases) : Resolves(user_purchases[i])
               THEN /\ preferred # None
                    /\ QuantityBought(user_purchases, f[1], preferred) > 0
                    /\ \A i \in 1..Len(user_purchases) :
                         Resolves(user_purchases[i])
                           => QuantityBought(user_purchases, f[1], preferred)
                                >= QuantityBought(user_purchases, f[1],
                                     FindProduct(user_purchases[i].product_id)[f[1]])
               ELSE preferred = None
       /\ \A i \in 1..Len(user_purchases) :
            (/\ Len(user_purchases) = 3
             /\ user_purchases[i].quantity >= 3
             /\ Resolves(user_purchases[i])
             /\ \A j \in 1..Len(user_purchases) :
                  j # i => /\ user_purchases[j].quantity = 1
                           /\ Resolves(user_purchases[j])
                           /\ FindProduct(user_purchases[j].product_id).category
                                # FindProduct(user_purchases[i].product_id).category)
              => preferences.preferred_category
                   = FindProduct(user_purchases[i].product_id).category

\* one line of quantity 3 or more of one category, bought first, and two
\* lines of quantity 1 of one other category: the first category is preferred
C14_Witness ==
  /\ Personalized
  /\ Len(user_purchases) = 3
  /\ \A i \in 1..3 : Resolves(user_purchases[i])
  /\ user_purchases[3].quantity >= 3
  /\ user_purchases[1].quantity = 1 /\ user_purchases[2].quantity = 1
  /\ FindProduct(user_purchases[1].product_id).category
       = FindProduct(user_purchases[2].product_id).category
  /\ FindProduct(user_purchases[3].product_id).category
       # FindProduct(user_purchases[1].product_id).category
  /\ preferences.preferred_category
       = FindProduct(user_purchases[3].product_id).category

\* the sum, over the lines that resolve, of the product's price in the store
RECURSIVE CurrentPriceSum(_)
CurrentPriceSum(purchs) ==
  IF purchs = <<>> THEN 0
  ELSE CurrentPriceSum(Front(purchs))
       + (IF Resolves(Last(purchs))
          THEN FindProduct(Last(purchs).product_id).price ELSE 0)

\* C15: average_price is the mean of the product's current price taken once
\* for each purchase line that resolves, whatever the line's quantity, and
\* is 0 when no line resolves; for a line now priced 30 of quantity above 1
\* and a line now priced 90 of quantity 1 it is 60.
C15_AveragePricePerLine ==
  Personalized
    => /\ preferences.price_count = Len(SelectSeq(user_purchases, Resolves))
       /\ preferences.price_sum = CurrentPriceSum(user_purchases)
       /\ (\A i \in 1..Len(user_purchases) : ~Resolves(user_purchases[i]))
            => (preferences.price_sum = 0 /\ ~AveragePricePositive(preferences))
       /\ (/\ Len(user_purchases) = 2
           /\ \A i \in 1..2 : Resolves(user_purchases[i])
           /\ \E i, j \in 1..2 :
                /\ FindProduct(user_purchases[i].product_id).price = 30
                /\ user_purchases[i].quantity > 1
                /\ FindProduct(user_purchases[j].product_id).price = 90
                /\ user_purchases[j].quantity = 1)
            => (preferences.price_count = 2 /\ preferences.price_sum = 2 * 60)

\* the two lines of the example, of products bought at other prices than
\* they have now
C15_Witness ==
  /\ Personalized
  /\ Len(user_purchases) = 2
  /\ \A i \in 1..2 : Resolves(user_purchases[i])
  /\ \E i, j \in 1..2 :
       /\ FindProduct(user_purchases[i].product_id).price = 30
       /\ user_purchases[i].product_price # 30
       /\ user_purchases[i].quantity > 1
       /\ FindProduct(user_purchases[j].product_id).price = 90
       /\ user_purchases[j].quantity = 1
  /\ preferences.price_sum = 120

\* the product is in stock, was not bought by the requesting user, and has
\* the preferred category, the preferred piece type or a price in the band
Eligible(product) ==
  /\ product.stock_quantity > 0
  /\ \A j \in 1..Len(History) : History[j].product_id # product._id
  /\ \/ product.category = preferences.preferred_category
     \/ product.piece_type = preferences.preferred_piece_type
     \/ /\ preferences.price_count > 0 /\ preferences.price_sum > 0
        /\ WithinThirtyPercent(product.price, preferences.price_sum,
                               preferences.price_count)

NothingEligible ==
  /\ IsRecommendation
  /\ request.user_id \notin MalformedIds
  /\ request.limit > 0
  /\ History # <<>>
  /\ \A i \in 1..Len(products) : ~Eligible(products[i])

\* C16: a user with purchase history for whom no product is eligible under
\* any strategy gets an empty list as a normal result: nothing is raised,
\* the answer is the no-recommendation text and the fallback is not used.
C16_EmptyResultIsNormal ==
  NothingEligible
    => /\ outcome = None
       /\ result = <<>>
       /\ response = "no_recommendations"
       /\ trace = PersonalizedTrace
       /\ popular_product_ids = <<>>

\* nothing was eligible although a product of the preferred piece type was
\* there without stock and other users' purchases were there for the
\* fallback to rank
C16_Witness ==
  /\ NothingEligible
  /\ \E i \in 1..Len(products) :
       /\ products[i].piece_type = preferences.preferred_piece_type
       /\ products[i].stock_quantity = 0
       /\ \A j \in 1..Len(History) : History[j].product_id # products[i]._id
  /\ \E j \in 1..Len(purchases) :
       purchases[j].user_id # request.user_id /\ Resolves(purchases[j])
  /\ result = <<>>

\* C17: a recommendation request on a store that could not be opened, or
\* one of whose queries fails, is answered with a failure text and no list;
\* the failed query is the last query of the request (it is not repeated and
\* nothing is read after it).
C17_StoreFailureIsReported ==
  /\ (Requested /\ ~connected)
       => /\ response = "unavailable"
          /\ result = <<>>
          /\ reads = <<>>
  /\ (Requested /\ connected /\ fails_at > 0)
       => /\ outcome = "PyMongoError"
          /\ response = "crash"
          /\ result = <<>>
          /\ recommendations = <<>>
          /\ Len(reads) = fails_at

\* a candidate query failed for a user with history, after the analysis,
\* while a product was eligible and other users' purchases were in the store
C17_Witness ==
  /\ Requested /\ connected
  /\ request.limit > 0
  /\ History # <<>>
  /\ fails_at > 1 + Len(History)
  /\ \E i \in 1..Len(products) : Eligible(products[i])
  /\ Len(purchases) > Len(History)

\* one of the candidate queries of a request with history failed
StrategyQueryFailed ==
  /\ Requested /\ connected
  /\ request.limit > 0
  /\ History # <<>>
  /\ fails_at > 1 + Len(History)

\* C18 (as claimed): when one candidate query fails the request does not
\* fail: a list, possibly empty, is returned.
C18_FailedStrategyIsSkipped ==
  StrategyQueryFailed
    => /\ outcome = None
       /\ response \in {"recommendations", "no_recommendations"}

\* nothing of a request is held: every request-scoped value is empty
NothingKept ==
  /\ result = <<>>
  /\ user_purchases = <<>>
  /\ preferences = NoPreferences
  /\ recommendations = <<>>
  /\ popular_product_ids = <<>>
  /\ strategies = <<0, 0, 0>>
  /\ sublimits = NotRun
  /\ reads = <<>>
  /\ trace = <<>>
  /\ fails_at = 0

\* C19: a step that answers a recommendation request, on any path, leaves
\* the users, products and purchases collections as they were, and once the
\* answer is sent nothing of the request is kept.
C19_RequestIsReadOnly ==
  [][/\ Requested' => (users' = users /\ products' = products
                         /\ purchases' = purchases)
     /\ Idle' => NothingKept']_vars

\* a request was answered with a list from a store that holds purchases
C19_Witness ==
  /\ Requested /\ connected
  /\ purchases # <<>>
  /\ result # <<>>

\* C20: a purchase whose product no longer resolves adds nothing to the
\* tallies and nothing to the price samples: the profile of a purchase list
\* is the profile of the list without its unresolved purchases.
C20_UnresolvedPurchasesSkipped ==
  Personalized
    => preferences = analyze_user_preferences(SelectSeq(user_purchases, Resolves))

\* the list held a purchase of a deleted product between two purchases that
\* resolve
C20_Witness ==
  /\ Personalized
  /\ Len(user_purchases) = 3
  /\ Resolves(user_purchases[1])
  /\ ~Resolves(user_purchases[2])
  /\ Resolves(user_purchases[3])
  /\ preferences.price_count = 2

(***************************************************************************)
(* The budgets of the three candidate queries.                             *)
(***************************************************************************)
\* a personalized answer to a request with a positive limit
PersonalizedPositive == Personalized /\ request.limit > 0

\* the candidates that were in the list when strategy k began
RunningCount(k) == IF k = 1 THEN 0
                   ELSE IF k = 2 THEN strategies[1]
                   ELSE strategies[1] + strategies[2]

\* C21 (as claimed): for every positive limit, limit 1 and 2 included, the
\* category query adds at most limit // 3 candidates, and none when there
\* is no preferred category.
C21_CategoryBudget ==
  PersonalizedPositive
    => /\ strategies[1] <= request.limit \div 3
       /\ preferences.preferred_category = None => strategies[1] = 0

\* C22 (as claimed): the piece-type query is made only with a preferred
\* piece type and a running count below limit, and it adds at most
\* (limit - running count) // 2 candidates, also when that quotient is 0.
C22_PieceTypeBudget ==
  PersonalizedPositive
    => /\ sublimits[2] # <<>>
            => /\ preferences.preferred_piece_type # None
               /\ RunningCount(2) < request.limit
               /\ strategies[2] <= (request.limit - RunningCount(2)) \div 2
       /\ sublimits[2] = <<>> => strategies[2] = 0

\* a product the price-band query matches: in stock, not bought by the
\* requesting user, priced within 30% of the average price
InBand(product) ==
  /\ product.stock_quantity > 0
  /\ \A j \in 1..Len(History) : History[j].product_id # product._id
  /\ WithinThirtyPercent(product.price, preferences.price_sum,
                         preferences.price_count)

C24_BudgetsFixedUpFront ==
  PersonalizedPositive
    => /\ sublimits[1] \in {<<>>, <<request.limit \div 3>>}
       /\ sublimits[2] \in {<<>>, <<request.limit \div 2>>}
       /\ sublimits[3] \in {<<>>, <<request.limit>>}

\* the product was sold out by purchases of users other than the requesting
\* one, and but for its stock a strategy query of the request matches it
SoldOutMatch(product) ==
  /\ product.stock_quantity = 0
  /\ TotalQuantity(purchases, product._id) > 0
  /\ \A j \in 1..Len(History) : History[j].product_id # product._id
  /\ \/ product.category = preferences.preferred_category
     \/ product.piece_type = preferences.preferred_piece_type
     \/ /\ preferences.price_count > 0 /\ preferences.price_sum > 0
        /\ WithinThirtyPercent(product.price, preferences.price_sum,
                               preferences.price_count)

\* C25: every product returned on the personalized path is a product of the
\* store the request read with stock_quantity > 0 there; a product that
\* create_purchase calls brought to stock 0 is not returned.
C25_ReturnedInStock ==
  Personalized
    => \A i \in 1..Len(result) :
         /\ result[i].stock_quantity > 0
         /\ \E j \in 1..Len(products) :
              /\ products[j]._id = result[i]._id
              /\ products[j].stock_quantity = result[i].stock_quantity

C25_Witness ==
  /\ Personalized
  /\ result # <<>>
  /\ \E j \in 1..Len(products) : SoldOutMatch(products[j])

(***************************************************************************)
(* The ranking.                                                            *)
(***************************************************************************)
\* where the product first occurs in the candidate list
FirstSeen(id) ==
  CHOOSE i \in 1..Len(recommendations) :
    /\ recommendations[i]._id = id
    /\ \A j \in 1..(i - 1) : recommendations[j]._id # id

\* where the product is in the products collection
StorePosition(id) == CHOOSE i \in 1..Len(products) : products[i]._id = id

\* the strategy that gave the candidate at position i of the candidate list
StrategyOf(i) == IF i <= strategies[1] THEN 1
                 ELSE IF i <= strategies[1] + strategies[2] THEN 2 ELSE 3

SameScore(a, b) ==
  a.recommendation_score.num * b.recommendation_score.den
    = b.recommendation_score.num * a.recommendation_score.den

\* C26: two returned recommendations of equal recommendation_score are in
\* the order of their first occurrence in the candidate list, which holds
\* the category candidates, then the piece-type candidates, then the
\* price-band candidates, each strategy's in store order.
C26_StableRanking ==
  Personalized
    => /\ \A i, j \in 1..Len(result) :
            (i < j /\ SameScore(result[i], result[j]))
              => FirstSeen(result[i]._id) < FirstSeen(result[j]._id)
       /\ Len(recommendations) = strategies[1] + strategies[2] + strategies[3]
       /\ \A i, j \in 1..Len(recommendations) :
            (i < j /\ StrategyOf(i) = StrategyOf(j))
              => StorePosition(recommendations[i]._id)
                   < StorePosition(recommendations[j]._id)

\* two recommendations of equal score were returned
C26_Witness ==
  /\ Personalized
  /\ \E i, j \in 1..Len(result) : i < j /\ SameScore(result[i], result[j])

(***************************************************************************)
(* The order of the purchase list.                                         *)
(***************************************************************************)
\* the purchase list the request fetched, listed in another order
Listed(f) == [i \in 1..Len(user_purchases) |-> user_purchases[f[i]]]

\* equal profiles: the tallies are dicts, equal whatever their key order
SameProfile(a, b) ==
  /\ a.preferred_category = b.preferred_category
  /\ a.preferred_piece_type = b.preferred_piece_type
  /\ a.preferred_color = b.preferred_color
  /\ a.price_sum = b.price_sum /\ a.price_count = b.price_count
  /\ Range(a.categories) = Range(b.categories)
  /\ Range(a.piece_types) = Range(b.piece_types)
  /\ Range(a.colors) = Range(b.colors)

\* C27 (as claimed): on the store the request read, the same purchases
\* listed in any other order give the same preference profile and the same
\* returned recommendations.
C27_PurchaseOrderIrrelevant ==
  PersonalizedPositive
    => \A f \in Permutations(1..Len(user_purchases)) :
         LET prefs == analyze_user_preferences(Listed(f))
         IN /\ SameProfile(prefs, preferences)
            /\ get_recommendations_by_preferences(prefs, Listed(f),
                                                  request.limit).result = result

\* the line of the list as read resolves to a product with this value
LineHas(i, field, value) ==
  /\ Resolves(user_purchases[i])
  /\ FindProduct(user_purchases[i].product_id)[field] = value

\* the first line of the list as read that has this value
FirstLineWith(field, value) ==
  CHOOSE i \in 1..Len(user_purchases) :
    /\ LineHas(i, field, value)
    /\ \A j \in 1..(i - 1) : ~LineHas(j, field, value)

\* C28: the purchase list is read most recent first, and when several values
\* of a field have the greatest summed quantity the preferred one is the
\* one that comes first in that list: every other value of the greatest
\* summed quantity first occurs on a later line.
C28_TieGoesToFirstListed ==
  Personalized
    => /\ user_purchases = Reverse(History)
       /\ \A f \in PreferenceFields : \A i \in 1..Len(user_purchases) :
            (/\ Resolves(user_purchases[i])
             /\ ~LineHas(i, f[1], preferences[f[2]])
             /\ QuantityBought(user_purchases, f[1],
                  FindProduct(user_purchases[i].product_id)[f[1]])
                  = QuantityBought(user_purchases, f[1], preferences[f[2]]))
              => /\ preferences[f[2]] # None
                 /\ FirstLineWith(f[1], preferences[f[2]]) < i

\* three lines of three categories: the most recent has the least quantity,
\* the two older ones tie, and the category of the second line is preferred
C28_Witness ==
  /\ Personalized
  /\ Len(user_purchases) = 3
  /\ \A i \in 1..3 : Resolves(user_purchases[i])
  /\ user_purchases[1].quantity < user_purchases[2].quantity
  /\ user_purchases[2].quantity = user_purchases[3].quantity
  /\ Cardinality({FindProduct(user_purchases[i].product_id).category :
                    i \in 1..3}) = 3
  /\ preferences.preferred_category
       = FindProduct(user_purchases[2].product_id).category

(***************************************************************************)
(* The range of the scores.                                                *)
(***************************************************************************)
\* bound <= score, for a bound given in tenths
AtLeastTenths(score, tenths) == tenths * score.den <= 10 * score.num

\* score <= bound, for a bound given in tenths
AtMostTenths(score, tenths) == 10 * score.num <= tenths * score.den

C30_StockNeverOversold ==
  /\ \A i \in 1..Len(products) : products[i].stock_quantity >= 0
  /\ \A i \in 1..Len(Catalogue) :
       TotalQuantity(purchases, Catalogue[i]._id) <= Catalogue[i].stock_quantity

====
